---------------------------- MODULE Spec2Model ----------------------------
(***************************************************************************)
(* Model of the transaction engine of csv-transaction-processing:          *)
(* TransactionService::apply_transaction (src/src/services.rs) applied to  *)
(* a stream of decoded records, with the AccountsCache                     *)
(* (src/src/accounts.rs) and the TransactionCache                          *)
(* (src/src/transactions.rs) it owns.                                      *)
(*                                                                         *)
(* Amounts are exact fixed-scale integers (units of 0.0001); the rounding  *)
(* of the f32 fields of the source is not modelled.                        *)
(***************************************************************************)
EXTENDS Integers, Sequences, FiniteSets, TLC

\* ------------------------------------------------------------------ bounds
NumClients == 2
NumTx == 2
MaxAmount == 1
MaxRecords == 5

Clients == 1..NumClients
TxIds == 1..NumTx
Amounts == 0..MaxAmount

\* ------------------------------------------------- Option<f32> (amount)
None == <<>>
Some(x) == <<x>>
unwrap(o) == o[1]
is_none(o) == o = None

\* HashMap::get_mut: the entry under `k`, if any.
get_mut(store, k) == IF k \in DOMAIN store THEN Some(store[k]) ELSE None

\* --------------------------------------------------------- transactions.rs
TransactionType == {"Deposit", "Withdrawal", "Dispute", "Resolve", "Chargeback"}

\* A decoded record: `disputed` is skipped by the decoder and starts false.
Transaction(ty, c, t, amt) ==
    [transaction_type |-> ty, client_id |-> c, tx_id |-> t, amount |-> amt,
     disputed |-> FALSE]

TransactionCache_new == <<>>

TransactionCache_contains_key(store, tx_id) == tx_id \in DOMAIN store

\* Mutant: records of every kind are retained.
insert_all_kinds(store, tx) ==
    [k \in DOMAIN store \cup {tx.tx_id} |-> IF k = tx.tx_id THEN tx ELSE store[k]]

\* Mutant: an entry already in the store is kept (first write wins).
insert_first_wins(store, tx) ==
    IF tx.transaction_type \in {"Withdrawal", "Deposit"}
    THEN [k \in DOMAIN store \cup {tx.tx_id} |->
             IF k \in DOMAIN store THEN store[k] ELSE tx]
    ELSE store

insert(store, tx) ==
    IF tx.transaction_type \in {"Withdrawal", "Deposit"}
    THEN [k \in DOMAIN store \cup {tx.tx_id} |-> IF k = tx.tx_id THEN tx ELSE store[k]]
    ELSE store

\* ------------------------------------------------------------- accounts.rs
AccountsCache_new == <<>>

AccountsCache_contains_key(store, client_id) == client_id \in DOMAIN store

Account_new(client_id, initial_deposit) ==
    [client |-> client_id, total |-> initial_deposit, held |-> 0,
     available |-> initial_deposit, locked |-> FALSE]

apply_deposit(a, deposit_amt) ==
    [a EXCEPT !.total = @ + deposit_amt, !.available = @ + deposit_amt]

\* Mutant: the funds check is missing.
apply_withdrawal_unguarded(a, withdrawal_amt) ==
    [a EXCEPT !.total = @ - withdrawal_amt, !.available = @ - withdrawal_amt]

apply_withdrawal(a, withdrawal_amt) ==
    IF a.available < withdrawal_amt
    THEN a
    ELSE [a EXCEPT !.total = @ - withdrawal_amt, !.available = @ - withdrawal_amt]

\* Mutant: the disputed funds leave available but are not added to held.
apply_dispute_available_only(a, disputed_amt) ==
    [a EXCEPT !.available = @ - disputed_amt]

\* Mutant: a dispute for more than the available funds is refused.
apply_dispute_clamped(a, disputed_amt) ==
    IF a.available < disputed_amt
    THEN a
    ELSE [a EXCEPT !.available = @ - disputed_amt, !.held = @ + disputed_amt]

apply_dispute(a, disputed_amt) ==
    [a EXCEPT !.available = @ - disputed_amt, !.held = @ + disputed_amt]

\* Mutant: the released funds are not returned to available.
apply_resolve_held_only(a, resolve_amt) ==
    [a EXCEPT !.held = @ - resolve_amt]

apply_resolve(a, resolve_amt) ==
    [a EXCEPT !.held = @ - resolve_amt, !.available = @ + resolve_amt]

\* Mutant: the charged-back funds stay in total.
apply_chargeback_keeps_total(a, chargeback_amt) ==
    [a EXCEPT !.locked = TRUE, !.held = @ - chargeback_amt]

apply_chargeback(a, chargeback_amt) ==
    [a EXCEPT !.locked = TRUE, !.held = @ - chargeback_amt,
              !.total = @ - chargeback_amt]

\* Mutant: a Withdrawal opens an account too.
initialize_account_any_amount(store, tx) ==
    IF tx.transaction_type \in {"Deposit", "Withdrawal"}
    THEN [k \in DOMAIN store \cup {tx.client_id} |->
            IF k = tx.client_id
            THEN Account_new(tx.client_id, unwrap(tx.amount))
            ELSE store[k]]
    ELSE store

\* Mutant: the first record of a client opens an account whatever its kind,
\* empty unless the record is a Deposit.
initialize_account_any_kind(store, tx) ==
    [k \in DOMAIN store \cup {tx.client_id} |->
        IF k = tx.client_id
        THEN Account_new(tx.client_id,
                         IF tx.transaction_type = "Deposit"
                         THEN unwrap(tx.amount) ELSE 0)
        ELSE store[k]]

initialize_account(store, tx) ==
    IF tx.transaction_type = "Deposit"
    THEN [k \in DOMAIN store \cup {tx.client_id} |->
            IF k = tx.client_id
            THEN Account_new(tx.client_id, unwrap(tx.amount))
            ELSE store[k]]
    ELSE store

\* ------------------------------------------------------------- services.rs
\* The handlers work on the two caches of the service; each returns the pair
\* of caches it leaves behind.
Service(accs, txs) == [accounts |-> accs, transactions |-> txs]

\* Mutant: the locked check is missing.
handle_deposit_ignoring_lock(accs, txs, tx) ==
    Service([accs EXCEPT ![tx.client_id] =
                apply_deposit(accs[tx.client_id], unwrap(tx.amount))], txs)

handle_deposit(accs, txs, tx) ==
    LET account == accs[tx.client_id] IN
    IF account.locked
    THEN Service(accs, txs)
    ELSE Service([accs EXCEPT ![tx.client_id] =
                     apply_deposit(account, unwrap(tx.amount))], txs)

handle_withdrawal(accs, txs, tx) ==
    LET account == accs[tx.client_id] IN
    IF account.locked
    THEN Service(accs, txs)
    ELSE Service([accs EXCEPT ![tx.client_id] =
                     apply_withdrawal(account, unwrap(tx.amount))], txs)

\* Mutant: the locked check is missing.
handle_dispute_ignoring_lock(accs, txs, tx) ==
    LET account == accs[tx.client_id] IN
    IF ~TransactionCache_contains_key(txs, tx.tx_id)
    THEN Service(accs, txs)
    ELSE LET disputed_tx == [txs[tx.tx_id] EXCEPT !.disputed = TRUE] IN
         Service([accs EXCEPT ![tx.client_id] =
                     apply_dispute(account, unwrap(disputed_tx.amount))],
                 [txs EXCEPT ![tx.tx_id] = disputed_tx])

\* Mutant: the dispute is applied to the account of the retained record's
\* client instead of the issuing client's.
handle_dispute_on_record_client(accs, txs, tx) ==
    LET account == accs[tx.client_id] IN
    IF account.locked
    THEN Service(accs, txs)
    ELSE IF ~TransactionCache_contains_key(txs, tx.tx_id)
    THEN Service(accs, txs)
    ELSE LET disputed_tx == [txs[tx.tx_id] EXCEPT !.disputed = TRUE]
             owner == disputed_tx.client_id
         IN  Service(IF owner \in DOMAIN accs
                     THEN [accs EXCEPT ![owner] =
                              apply_dispute(accs[owner], unwrap(disputed_tx.amount))]
                     ELSE accs,
                     [txs EXCEPT ![tx.tx_id] = disputed_tx])

handle_dispute(accs, txs, tx) ==
    LET account == accs[tx.client_id] IN
    IF account.locked
    THEN Service(accs, txs)
    ELSE IF ~TransactionCache_contains_key(txs, tx.tx_id)
    THEN Service(accs, txs)
    ELSE LET disputed_tx == [txs[tx.tx_id] EXCEPT !.disputed = TRUE] IN
         Service([accs EXCEPT ![tx.client_id] =
                     apply_dispute(account, unwrap(disputed_tx.amount))],
                 [txs EXCEPT ![tx.tx_id] = disputed_tx])

\* Mutant: the disputed check is missing.
handle_resolve_unchecked(accs, txs, tx) ==
    LET account == accs[tx.client_id] IN
    IF account.locked
    THEN Service(accs, txs)
    ELSE IF ~TransactionCache_contains_key(txs, tx.tx_id)
    THEN Service(accs, txs)
    ELSE LET resolved_tx == txs[tx.tx_id] IN
         Service([accs EXCEPT ![tx.client_id] =
                     apply_resolve(account, unwrap(resolved_tx.amount))],
                 [txs EXCEPT ![tx.tx_id] =
                     [resolved_tx EXCEPT !.disputed = FALSE]])

\* Mutant: a Resolve leaves the disputed flag set.
handle_resolve_keeps_flag(accs, txs, tx) ==
    LET account == accs[tx.client_id] IN
    IF account.locked
    THEN Service(accs, txs)
    ELSE IF ~TransactionCache_contains_key(txs, tx.tx_id)
    THEN Service(accs, txs)
    ELSE LET resolved_tx == txs[tx.tx_id] IN
         IF ~resolved_tx.disputed
         THEN Service(accs, txs)
         ELSE Service([accs EXCEPT ![tx.client_id] =
                          apply_resolve(account, unwrap(resolved_tx.amount))],
                      txs)

handle_resolve(accs, txs, tx) ==
    LET account == accs[tx.client_id] IN
    IF account.locked
    THEN Service(accs, txs)
    ELSE IF ~TransactionCache_contains_key(txs, tx.tx_id)
    THEN Service(accs, txs)
    ELSE LET resolved_tx == txs[tx.tx_id] IN
         IF ~resolved_tx.disputed
         THEN Service(accs, txs)
         ELSE Service([accs EXCEPT ![tx.client_id] =
                          apply_resolve(account, unwrap(resolved_tx.amount))],
                      [txs EXCEPT ![tx.tx_id] =
                          [resolved_tx EXCEPT !.disputed = FALSE]])

\* Mutant: the account is locked before the transaction is looked up.
handle_chargeback_locks_first(accs, txs, tx) ==
    LET account == accs[tx.client_id] IN
    IF account.locked
    THEN Service(accs, txs)
    ELSE IF ~TransactionCache_contains_key(txs, tx.tx_id)
    THEN Service([accs EXCEPT ![tx.client_id].locked = TRUE], txs)
    ELSE LET chargeback_tx == txs[tx.tx_id] IN
         IF ~chargeback_tx.disputed
         THEN Service(accs, txs)
         ELSE Service([accs EXCEPT ![tx.client_id] =
                          apply_chargeback(account, unwrap(chargeback_tx.amount))],
                      [txs EXCEPT ![tx.tx_id] =
                          [chargeback_tx EXCEPT !.disputed = FALSE]])

\* Mutant: the disputed flag is not cleared.
handle_chargeback_keeps_flag(accs, txs, tx) ==
    LET account == accs[tx.client_id] IN
    IF account.locked
    THEN Service(accs, txs)
    ELSE IF ~TransactionCache_contains_key(txs, tx.tx_id)
    THEN Service(accs, txs)
    ELSE LET chargeback_tx == txs[tx.tx_id] IN
         IF ~chargeback_tx.disputed
         THEN Service(accs, txs)
         ELSE Service([accs EXCEPT ![tx.client_id] =
                          apply_chargeback(account, unwrap(chargeback_tx.amount))],
                      txs)

handle_chargeback(accs, txs, tx) ==
    LET account == accs[tx.client_id] IN
    IF account.locked
    THEN Service(accs, txs)
    ELSE IF ~TransactionCache_contains_key(txs, tx.tx_id)
    THEN Service(accs, txs)
    ELSE LET chargeback_tx == txs[tx.tx_id] IN
         IF ~chargeback_tx.disputed
         THEN Service(accs, txs)
         ELSE Service([accs EXCEPT ![tx.client_id] =
                          apply_chargeback(account, unwrap(chargeback_tx.amount))],
                      [txs EXCEPT ![tx.tx_id] =
                          [chargeback_tx EXCEPT !.disputed = FALSE]])

\* Mutant: for a client of the ledger the record is retained only once its
\* handler has changed the ledger.
apply_transaction_retains_applied(accs, txs, tx) ==
    IF ~AccountsCache_contains_key(accs, tx.client_id)
    THEN Service(initialize_account(accs, tx), insert(txs, tx))
    ELSE LET s == CASE tx.transaction_type = "Deposit" -> handle_deposit(accs, txs, tx)
                    [] tx.transaction_type = "Withdrawal" -> handle_withdrawal(accs, txs, tx)
                    [] tx.transaction_type = "Dispute" -> handle_dispute(accs, txs, tx)
                    [] tx.transaction_type = "Resolve" -> handle_resolve(accs, txs, tx)
                    [] tx.transaction_type = "Chargeback" -> handle_chargeback(accs, txs, tx)
         IN  IF s.accounts # accs
             THEN Service(s.accounts, insert(s.transactions, tx))
             ELSE s

\* apply_transaction as a function of the service before the record.
apply_transaction(accs, txs, tx) ==
    LET stored == insert(txs, tx) IN
    IF ~AccountsCache_contains_key(accs, tx.client_id)
    THEN Service(initialize_account(accs, tx), stored)
    ELSE CASE tx.transaction_type = "Deposit" -> handle_deposit(accs, stored, tx)
           [] tx.transaction_type = "Withdrawal" -> handle_withdrawal(accs, stored, tx)
           [] tx.transaction_type = "Dispute" -> handle_dispute(accs, stored, tx)
           [] tx.transaction_type = "Resolve" -> handle_resolve(accs, stored, tx)
           [] tx.transaction_type = "Chargeback" -> handle_chargeback(accs, stored, tx)

\* print_accounts: the report of the ledger.  An amount of n units of 0.0001
\* is written with four fractional digits; the rows come in the iteration
\* order of the HashMap, which is unspecified, so the report keeps them as a
\* set.
Abs(n) == IF n < 0 THEN -n ELSE n
Format4(n) ==
    [sign |-> IF n < 0 THEN "-" ELSE "", int |-> Abs(n) \div 10000,
     frac |-> Abs(n) % 10000]
FormatBool(b) == IF b THEN "true" ELSE "false"
to_string(store) ==
    [header |-> "client,available,held,total,locked",
     rows |-> {<<c, Format4(store[c].available), Format4(store[c].held),
                 Format4(store[c].total), FormatBool(store[c].locked)>> :
               c \in DOMAIN store}]
print_accounts(accs) == to_string(accs)

\* The unwrap calls of the engine: each predicate holds when the call it
\* names would reach an unwrap of an absent value (a panic) on the way the
\* code takes through it.
initialize_account_panics(store, tx) ==
    tx.transaction_type = "Deposit" /\ is_none(tx.amount)

handle_deposit_panics(accs, txs, tx) ==
    \/ is_none(get_mut(accs, tx.client_id))
    \/ ~accs[tx.client_id].locked /\ is_none(tx.amount)

handle_withdrawal_panics(accs, txs, tx) ==
    \/ is_none(get_mut(accs, tx.client_id))
    \/ ~accs[tx.client_id].locked /\ is_none(tx.amount)

\* Mutant: the transaction is looked up without the contains_key test.
handle_dispute_panics_unguarded(accs, txs, tx) ==
    \/ is_none(get_mut(accs, tx.client_id))
    \/ /\ ~accs[tx.client_id].locked
       /\ \/ is_none(get_mut(txs, tx.tx_id))
          \/ is_none(txs[tx.tx_id].amount)

handle_dispute_panics(accs, txs, tx) ==
    \/ is_none(get_mut(accs, tx.client_id))
    \/ /\ ~accs[tx.client_id].locked
       /\ TransactionCache_contains_key(txs, tx.tx_id)
       /\ \/ is_none(get_mut(txs, tx.tx_id))
          \/ is_none(txs[tx.tx_id].amount)

handle_resolve_panics(accs, txs, tx) ==
    \/ is_none(get_mut(accs, tx.client_id))
    \/ /\ ~accs[tx.client_id].locked
       /\ TransactionCache_contains_key(txs, tx.tx_id)
       /\ \/ is_none(get_mut(txs, tx.tx_id))
          \/ txs[tx.tx_id].disputed /\ is_none(txs[tx.tx_id].amount)

handle_chargeback_panics(accs, txs, tx) ==
    \/ is_none(get_mut(accs, tx.client_id))
    \/ /\ ~accs[tx.client_id].locked
       /\ TransactionCache_contains_key(txs, tx.tx_id)
       /\ \/ is_none(get_mut(txs, tx.tx_id))
          \/ txs[tx.tx_id].disputed /\ is_none(txs[tx.tx_id].amount)

apply_transaction_panics(accs, txs, tx) ==
    LET stored == insert(txs, tx) IN
    IF ~AccountsCache_contains_key(accs, tx.client_id)
    THEN initialize_account_panics(accs, tx)
    ELSE CASE tx.transaction_type = "Deposit" -> handle_deposit_panics(accs, stored, tx)
           [] tx.transaction_type = "Withdrawal" -> handle_withdrawal_panics(accs, stored, tx)
           [] tx.transaction_type = "Dispute" -> handle_dispute_panics(accs, stored, tx)
           [] tx.transaction_type = "Resolve" -> handle_resolve_panics(accs, stored, tx)
           [] tx.transaction_type = "Chargeback" -> handle_chargeback_panics(accs, stored, tx)

\* ------------------------------------------------------------------ lib.rs
\* The service of process_csv and the record stream it consumes.  `hist`,
\* `disputeBefore`, `life`, `eff`, `chargedBack`, `fate`, `processed` and `wellFormed` record the stream consumed so
\* far; the engine never reads them.
VARIABLES
    accounts,      \* TransactionService.accounts : client id -> Account
    transactions,  \* TransactionService.transactions : tx id -> Transaction
    hist,          \* <<>> before the first record; then the record applied
                   \* last, with the service and the stream summary it was
                   \* applied to
    disputeBefore, \* the entry of the record applied before the last one if
                   \* that record was a Dispute, else <<>>
    life,          \* tx id -> kind of the latest Dispute/Resolve/Chargeback
                   \* record of the stream referencing it ("none" if none)
    eff,           \* as life, counting only records that changed the service
    chargedBack,   \* <<client, tx>> of the Chargebacks that changed the service
    fate,          \* tx id -> what became of the latest Deposit/Withdrawal
                   \* record of the stream with that id: "applied",
                   \* "dropped", or "none" if there was none
    processed,     \* number of records applied
    panicked,      \* an unwrap of the engine met an absent value
    wellFormed,    \* every Deposit and Withdrawal of the stream so far
                   \* carried an amount
    pc,            \* where process_csv stands: "open", "loop", "ok", "err"
    report         \* the Ok(results) of process_csv: None until it returns it

vars == <<accounts, transactions, hist, disputeBefore, life, eff, chargedBack,
          fate, processed, panicked, wellFormed, pc, report>>

Lifecycle == {"Dispute", "Resolve", "Chargeback"}

\* The service of process_csv once the reader is open (lib.rs, line 50).
Init ==
    /\ accounts = AccountsCache_new
    /\ transactions = TransactionCache_new
    /\ hist = <<>>
    /\ disputeBefore = <<>>
    /\ life = [t \in TxIds |-> "none"]
    /\ eff = [t \in TxIds |-> "none"]
    /\ chargedBack = {}
    /\ fate = [t \in TxIds |-> "none"]
    /\ processed = 0
    /\ panicked = FALSE
    /\ wellFormed = TRUE
    /\ pc = "loop"
    /\ report = None

\* A Deposit or Withdrawal that apply_transaction drops: the first record of
\* an unknown client that is not a Deposit, a record on a locked account, a
\* withdrawal above the available funds.
Dropped(accs, tx) ==
    IF ~AccountsCache_contains_key(accs, tx.client_id)
    THEN tx.transaction_type # "Deposit"
    ELSE \/ accs[tx.client_id].locked
         \/ /\ tx.transaction_type = "Withdrawal"
            /\ accs[tx.client_id].available < unwrap(tx.amount)

\* service.apply_transaction(&transaction): the service after the record.
Apply(tx) ==
    IF apply_transaction_panics(accounts, transactions, tx)
    THEN /\ panicked' = TRUE
         /\ UNCHANGED <<accounts, transactions>>
    ELSE LET s == apply_transaction(accounts, transactions, tx) IN
         /\ panicked' = FALSE
         /\ accounts' = s.accounts
         /\ transactions' = s.transactions

\* The record `tx` leaves the stream: what the stream summary keeps of it.
Consume(tx) ==
    LET changed == accounts' # accounts \/ transactions' # transactions
        entry == [tx |-> tx, accounts |-> accounts, transactions |-> transactions,
                  life |-> life, eff |-> eff, chargedBack |-> chargedBack]
    IN  /\ hist' = <<entry>>
        /\ disputeBefore' = IF hist # <<>> /\ hist[1].tx.transaction_type = "Dispute"
                            THEN hist
                            ELSE <<>>
        /\ life' = IF tx.transaction_type \in Lifecycle
                   THEN [life EXCEPT ![tx.tx_id] = tx.transaction_type]
                   ELSE life
        /\ eff' = IF tx.transaction_type \in Lifecycle /\ changed
                  THEN [eff EXCEPT ![tx.tx_id] = tx.transaction_type]
                  ELSE eff
        /\ chargedBack' = IF tx.transaction_type = "Chargeback" /\ changed
                          THEN chargedBack \cup {<<tx.client_id, tx.tx_id>>}
                          ELSE chargedBack
        /\ fate' = IF tx.transaction_type \in Lifecycle
                      \/ apply_transaction_panics(accounts, transactions, tx)
                   THEN fate
                   ELSE [fate EXCEPT ![tx.tx_id] =
                            IF Dropped(accounts, tx) THEN "dropped" ELSE "applied"]
        /\ processed' = processed + 1
        /\ wellFormed' = (wellFormed /\ (tx.transaction_type \in Lifecycle
                                          \/ ~is_none(tx.amount)))

\* One iteration of the loop of process_csv per action: the reader yields a
\* record of the kind and the service applies it.  Deposits and withdrawals
\* carry an amount; the amount column of the other kinds is empty.
Deposit ==
    \E c \in Clients, t \in TxIds, x \in Amounts :
        /\ pc = "loop" /\ ~panicked /\ processed < MaxRecords
        /\ UNCHANGED <<pc, report>>
        /\ Apply(Transaction("Deposit", c, t, Some(x)))
        /\ Consume(Transaction("Deposit", c, t, Some(x)))

Withdrawal ==
    \E c \in Clients, t \in TxIds, x \in Amounts :
        /\ pc = "loop" /\ ~panicked /\ processed < MaxRecords
        /\ UNCHANGED <<pc, report>>
        /\ Apply(Transaction("Withdrawal", c, t, Some(x)))
        /\ Consume(Transaction("Withdrawal", c, t, Some(x)))

Dispute ==
    \E c \in Clients, t \in TxIds :
        /\ pc = "loop" /\ ~panicked /\ processed < MaxRecords
        /\ UNCHANGED <<pc, report>>
        /\ Apply(Transaction("Dispute", c, t, None))
        /\ Consume(Transaction("Dispute", c, t, None))

Resolve ==
    \E c \in Clients, t \in TxIds :
        /\ pc = "loop" /\ ~panicked /\ processed < MaxRecords
        /\ UNCHANGED <<pc, report>>
        /\ Apply(Transaction("Resolve", c, t, None))
        /\ Consume(Transaction("Resolve", c, t, None))

Chargeback ==
    \E c \in Clients, t \in TxIds :
        /\ pc = "loop" /\ ~panicked /\ processed < MaxRecords
        /\ UNCHANGED <<pc, report>>
        /\ Apply(Transaction("Chargeback", c, t, None))
        /\ Consume(Transaction("Chargeback", c, t, None))

\* The rest of process_csv.  Reader::from_path opens the file or fails; in
\* the loop the reader yields a decoding error, which `?` returns at once, or
\* reaches the end of the input, after which the report is returned.
StreamKept ==
    UNCHANGED <<accounts, transactions, hist, disputeBefore, life, eff,
                chargedBack, fate, processed, panicked, wellFormed>>

Open ==
    /\ pc = "open"
    /\ pc' = "loop"
    /\ UNCHANGED report
    /\ StreamKept

OpenError ==
    /\ pc = "open"
    /\ pc' = "err"
    /\ UNCHANGED report
    /\ StreamKept

\* Mutant: the ledger at the point of failure is reported.
DecodeError_partial_report ==
    /\ pc = "loop" /\ ~panicked
    /\ pc' = "err"
    /\ report' = Some(print_accounts(accounts))
    /\ StreamKept

DecodeError ==
    /\ pc = "loop" /\ ~panicked
    /\ pc' = "err"
    /\ UNCHANGED report
    /\ StreamKept

EndOfInput ==
    /\ pc = "loop" /\ ~panicked
    /\ pc' = "ok"
    /\ report' = Some(print_accounts(accounts))
    /\ StreamKept

\* A Deposit or Withdrawal row whose amount column is empty: the decoder
\* accepts it (amount is an Option with a default).
Amountless ==
    \E ty \in {"Deposit", "Withdrawal"}, c \in Clients, t \in TxIds :
        /\ pc = "loop" /\ ~panicked /\ processed < MaxRecords
        /\ UNCHANGED <<pc, report>>
        /\ Apply(Transaction(ty, c, t, None))
        /\ Consume(Transaction(ty, c, t, None))

Next == Deposit \/ Withdrawal \/ Dispute \/ Resolve \/ Chargeback

Spec == Init /\ [][Next]_vars

\* process_csv as a whole, from the opening of the file to its result.
InitCsv ==
    /\ accounts = AccountsCache_new
    /\ transactions = TransactionCache_new
    /\ hist = <<>>
    /\ disputeBefore = <<>>
    /\ life = [t \in TxIds |-> "none"]
    /\ eff = [t \in TxIds |-> "none"]
    /\ chargedBack = {}
    /\ fate = [t \in TxIds |-> "none"]
    /\ processed = 0
    /\ panicked = FALSE
    /\ wellFormed = TRUE
    /\ pc = "open"
    /\ report = None

NextCsv ==
    \/ Open \/ OpenError
    \/ Deposit \/ Withdrawal \/ Dispute \/ Resolve \/ Chargeback
    \/ Amountless
    \/ DecodeError \/ EndOfInput

SpecCsv == InitCsv /\ [][NextCsv]_vars

\* ------------------------------------------------------- shorthands
\* The record applied last, and the service it was applied to.
Acted == hist # <<>>
Last == hist[1].tx
Pre == hist[1]
Existed(c) == c \in DOMAIN Pre.accounts
AccountsChanged == accounts # Pre.accounts

\* ====================================================================
\* Claims
\* ====================================================================
\* The client and the tx id of the record applied last, and that client's
\* account before and after it.
LastClient == Last.client_id
LastTx == Last.tx_id
AccountBefore == Pre.accounts[LastClient]
AccountAfter == accounts[LastClient]
\* The record applied last passed the bootstrap and the locked guard.
LastOnUnlocked == Existed(LastClient) /\ ~AccountBefore.locked
\* The tx id of the record applied last was retained when it arrived.
LastTxRetained == LastTx \in DOMAIN Pre.transactions
OthersUnchanged ==
    \A c \in DOMAIN Pre.accounts \ {LastClient} :
        c \in DOMAIN accounts /\ accounts[c] = Pre.accounts[c]

\* C1 (I1, conservation at rest): after any sequence of records every account
\* of the ledger has total = available + held.
C1_Conservation ==
    \A c \in DOMAIN accounts :
        accounts[c].total = accounts[c].available + accounts[c].held

\* C1 witness: a Chargeback has just changed an account while some account
\* still holds funds under dispute.
C1_Witness ==
    /\ Acted /\ Last.transaction_type = "Chargeback" /\ AccountsChanged
    /\ \E c \in DOMAIN accounts : accounts[c].held > 0

\* C2 (I2, lock monotonicity): a record of any kind from any client leaves
\* every account that was locked before it exactly as it was (so locked never
\* returns to false).
C2_LockMonotonic ==
    Acted =>
        \A c \in DOMAIN Pre.accounts :
            Pre.accounts[c].locked =>
                c \in DOMAIN accounts /\ accounts[c] = Pre.accounts[c]

\* C2 witness: a Deposit of a positive amount has been applied to a client
\* whose account was locked.
C2_Witness ==
    /\ Acted /\ Existed(LastClient) /\ AccountBefore.locked
    /\ Last.transaction_type = "Deposit" /\ unwrap(Last.amount) > 0

\* C3 as stated (I4): a Resolve or Chargeback that changes an account is
\* immediately preceded, among the Dispute/Resolve/Chargeback records of the
\* stream with the same tx id, by a Dispute.
C3_Original ==
    (Acted /\ Last.transaction_type \in {"Resolve", "Chargeback"} /\ AccountsChanged)
        => Pre.life[LastTx] = "Dispute"

\* C3 amended: a Resolve or Chargeback that changes an account is preceded,
\* among the Dispute/Resolve/Chargeback records with the same tx id that were
\* not dropped (that changed the ledger or the store), immediately by a
\* Dispute; dropped records may lie in between.
C3_UndisputedGuard ==
    (Acted /\ Last.transaction_type \in {"Resolve", "Chargeback"} /\ AccountsChanged)
        => Pre.eff[LastTx] = "Dispute"

\* C3 witness: a Resolve or Chargeback changed an account although the
\* lifecycle record for the same tx just before it in the stream (a dropped
\* one) was not a Dispute.
C3_Witness ==
    /\ Acted /\ Last.transaction_type \in {"Resolve", "Chargeback"} /\ AccountsChanged
    /\ Pre.life[LastTx] # "Dispute"
    /\ Pre.eff[LastTx] = "Dispute"

\* C4 as stated: a Withdrawal, Dispute, Resolve or Chargeback whose client is
\* not in the ledger leaves the ledger and the transaction store unchanged.
C4_NonDepositFirstDropped ==
    (Acted /\ Last.transaction_type # "Deposit" /\ ~Existed(LastClient))
        => (accounts = Pre.accounts /\ transactions = Pre.transactions)

\* C5 (I6, bootstrap): a record for a client not in the ledger changes the
\* ledger only if it is a Deposit, and then it adds exactly the account of
\* that client with available = total = amount, held = 0, locked = false.
C5_Bootstrap ==
    (Acted /\ ~Existed(LastClient)) =>
        IF Last.transaction_type = "Deposit"
        THEN /\ DOMAIN accounts = DOMAIN Pre.accounts \cup {LastClient}
             /\ AccountAfter = [client |-> LastClient,
                                available |-> unwrap(Last.amount),
                                total |-> unwrap(Last.amount),
                                held |-> 0, locked |-> FALSE]
             /\ OthersUnchanged
        ELSE accounts = Pre.accounts

\* C5 witness: an opening Deposit of a positive amount created an account in
\* a ledger that already held another account.
C5_Witness ==
    /\ Acted /\ ~Existed(LastClient) /\ Last.transaction_type = "Deposit"
    /\ unwrap(Last.amount) > 0
    /\ DOMAIN Pre.accounts # {}

\* C6 (I5, withdrawal safety): a Withdrawal for an existing unlocked account
\* with available >= amount decreases available and total by amount and
\* leaves held and locked; with available < amount it leaves the account as
\* it was.
C6_WithdrawalSafety ==
    (Acted /\ Last.transaction_type = "Withdrawal" /\ LastOnUnlocked) =>
        LET x == unwrap(Last.amount) IN
        IF AccountBefore.available >= x
        THEN AccountAfter = [AccountBefore EXCEPT !.available = @ - x, !.total = @ - x]
        ELSE AccountAfter = AccountBefore

\* C6 witness: a Withdrawal of a positive amount was refused for lack of
\* available funds on an unlocked account whose total is positive.
C6_Witness ==
    /\ Acted /\ Last.transaction_type = "Withdrawal" /\ LastOnUnlocked
    /\ AccountBefore.available < unwrap(Last.amount)
    /\ AccountBefore.total > 0

\* The record applied last set the disputed flag of its tx from false (or
\* absent) to true.
LastSetFlag ==
    /\ LastTx \in DOMAIN transactions /\ transactions[LastTx].disputed
    /\ ~(LastTxRetained /\ Pre.transactions[LastTx].disputed)

\* C7 as stated: after a Chargeback on tx t has taken effect, no later Dispute
\* referencing t changes an account or sets the disputed flag of t.
C7_Original ==
    (Acted /\ Last.transaction_type = "Dispute"
       /\ \E c \in Clients : <<c, LastTx>> \in Pre.chargedBack)
        => (~AccountsChanged /\ ~LastSetFlag)

\* C7 amended: after a Chargeback by client c on tx t has taken effect, no
\* later Dispute issued by c referencing t changes an account or sets the
\* disputed flag of t (a Dispute by another, unlocked client still does).
C7_NoRedisputeByLockedClient ==
    (Acted /\ Last.transaction_type = "Dispute"
       /\ <<LastClient, LastTx>> \in Pre.chargedBack)
        => (~AccountsChanged /\ ~LastSetFlag)

\* C7 witness: the client whose Chargeback on t took effect has issued a
\* Dispute on t again, and t is still retained with a positive amount.
C7_Witness ==
    /\ Acted /\ Last.transaction_type = "Dispute"
    /\ <<LastClient, LastTx>> \in Pre.chargedBack
    /\ LastTxRetained /\ unwrap(Pre.transactions[LastTx].amount) > 0

\* The record before the last was a Dispute by the same client on the same tx
\* as the last record, and it was not dropped.
DisputeJustBefore ==
    /\ disputeBefore # <<>>
    /\ disputeBefore[1].tx.client_id = LastClient
    /\ disputeBefore[1].tx.tx_id = LastTx
    /\ LastClient \in DOMAIN disputeBefore[1].accounts
    /\ ~disputeBefore[1].accounts[LastClient].locked
    /\ LastTx \in DOMAIN disputeBefore[1].transactions

C9_ChargebackEffect ==
    (Acted /\ Last.transaction_type = "Chargeback" /\ LastOnUnlocked /\ LastTxRetained) =>
        LET r == Pre.transactions[LastTx]
            x == unwrap(r.amount)
        IN  IF r.disputed
            THEN /\ AccountAfter = [AccountBefore EXCEPT !.held = @ - x,
                                                         !.total = @ - x,
                                                         !.locked = TRUE]
                 /\ OthersUnchanged
                 /\ transactions = [Pre.transactions EXCEPT ![LastTx].disputed = FALSE]
            ELSE accounts = Pre.accounts /\ transactions = Pre.transactions

\* C9 witness: a Chargeback on a disputed record of positive amount took
\* effect.
C9_Witness ==
    /\ Acted /\ Last.transaction_type = "Chargeback" /\ LastOnUnlocked /\ LastTxRetained
    /\ Pre.transactions[LastTx].disputed
    /\ unwrap(Pre.transactions[LastTx].amount) > 0

\* C10 (dispute effect): a Dispute by an existing unlocked client on a
\* retained record r sets r.disputed, decreases available by r.amount and
\* increases held by r.amount, total and locked unchanged, whatever available
\* and r.disputed were.
C10_DisputeEffect ==
    (Acted /\ Last.transaction_type = "Dispute" /\ LastOnUnlocked /\ LastTxRetained) =>
        LET x == unwrap(Pre.transactions[LastTx].amount) IN
        /\ AccountAfter = [AccountBefore EXCEPT !.available = @ - x, !.held = @ + x]
        /\ OthersUnchanged
        /\ transactions = [Pre.transactions EXCEPT ![LastTx].disputed = TRUE]

\* C10 witness: a Dispute took effect on a record that was already disputed,
\* for more than the available funds.
C10_Witness ==
    /\ Acted /\ Last.transaction_type = "Dispute" /\ LastOnUnlocked /\ LastTxRetained
    /\ Pre.transactions[LastTx].disputed
    /\ AccountBefore.available < unwrap(Pre.transactions[LastTx].amount)
    /\ AccountAfter.available < 0

\* C11 (missing-transaction guard): a Dispute, Resolve or Chargeback whose tx
\* id is not in the transaction store leaves every account and every retained
\* record, disputed flags included, as they were.
C11_MissingTxDropped ==
    (Acted /\ Last.transaction_type \in Lifecycle /\ ~LastTxRetained)
        => (accounts = Pre.accounts /\ transactions = Pre.transactions)

\* C11 witness: such a record came from an existing, unlocked client while
\* another record was retained and disputed.
C11_Witness ==
    /\ Acted /\ Last.transaction_type \in Lifecycle /\ ~LastTxRetained
    /\ LastOnUnlocked
    /\ \E t \in DOMAIN Pre.transactions : Pre.transactions[t].disputed

\* C12 (I3, store retention): every record of the transaction store is a
\* Deposit or a Withdrawal, kept under its own tx id; so a Dispute, Resolve or
\* Chargeback that changes an account references a Deposit or Withdrawal.
C12_StoreRetention ==
    /\ \A t \in DOMAIN transactions :
           /\ transactions[t].transaction_type \in {"Deposit", "Withdrawal"}
           /\ transactions[t].tx_id = t
    /\ (Acted /\ Last.transaction_type \in Lifecycle /\ AccountsChanged)
           => /\ LastTxRetained
              /\ Pre.transactions[LastTx].transaction_type \in {"Deposit", "Withdrawal"}

\* C12 witness: a Chargeback has changed an account by referencing a retained
\* Withdrawal, and the store holds a Deposit too.
C12_Witness ==
    /\ Acted /\ Last.transaction_type = "Chargeback" /\ AccountsChanged
    /\ Pre.transactions[LastTx].transaction_type = "Withdrawal"
    /\ \E t \in DOMAIN transactions : transactions[t].transaction_type = "Deposit"

\* C13 (no fatal error from record content): on a stream whose Deposits and
\* Withdrawals all carry an amount, no unwrap of apply_transaction meets an
\* absent value: the engine never panics, and every retained record, whose
\* amount a later Dispute, Resolve or Chargeback unwraps, has an amount.
C13_NoPanic ==
    wellFormed =>
        /\ ~panicked
            /\ \A t \in DOMAIN transactions : ~is_none(transactions[t].amount)

\* C13 witness: a Dispute, Resolve or Chargeback has unwrapped the account of
\* its client, the retained record and that record's amount, and changed the
\* store, without a panic.
C13_Witness ==
    /\ Acted /\ wellFormed /\ ~panicked
    /\ Last.transaction_type \in Lifecycle /\ LastOnUnlocked /\ LastTxRetained
    /\ transactions # Pre.transactions

\* C14 (report ordering): process_csv has a report only once it has left the
\* loop at the end of the input, and the report is that of the ledger as the
\* last applied record left it; after a decoding (or opening) error there is
\* no report, not even a partial one; and once process_csv has returned,
\* nothing is applied any more.
C14_ReportOrdering ==
    /\ [](/\ ~is_none(report) =>
               (pc = "ok" /\ report = Some(print_accounts(accounts)))
          /\ pc = "ok" => ~is_none(report)
          /\ pc = "err" => is_none(report))
    /\ [][(pc \in {"ok", "err"}) => (vars' = vars)]_vars

\* C14 witness: decoding failed after records had opened an account, and
\* there is no report.
C14_Witness ==
    /\ pc = "err" /\ processed > 0 /\ DOMAIN accounts # {}
    /\ is_none(report)

\* The record applied last is a Dispute, Resolve or Chargeback that passed the
\* guards up to the lookup, and the record it references was retained for
\* another client.
LastCrossClient ==
    /\ Acted /\ Last.transaction_type \in Lifecycle
    /\ LastOnUnlocked /\ LastTxRetained
    /\ Pre.transactions[LastTx].client_id # LastClient

\* C15 (client frame): a record changes no account but that of its own
\* client, and opens no other; a Dispute, Resolve or Chargeback of client c on
\* a record retained for another client moves that record's amount in c's
\* account (Resolve and Chargeback when the record is flagged), and the
\* account of the record's client stays as it was.
C15_ClientFrame ==
    /\ Acted =>
          /\ OthersUnchanged
          /\ DOMAIN accounts \subseteq DOMAIN Pre.accounts \cup {LastClient}
    /\ LastCrossClient =>
          LET r == Pre.transactions[LastTx]
              amt == unwrap(r.amount)
              a == AccountBefore
          IN  /\ Last.transaction_type = "Dispute" =>
                    AccountAfter = [a EXCEPT !.available = a.available - amt,
                                             !.held = a.held + amt]
              /\ (Last.transaction_type = "Resolve" /\ r.disputed) =>
                    AccountAfter = [a EXCEPT !.available = a.available + amt,
                                             !.held = a.held - amt]
              /\ (Last.transaction_type = "Chargeback" /\ r.disputed) =>
                    AccountAfter = [a EXCEPT !.held = a.held - amt,
                                             !.total = a.total - amt,
                                             !.locked = TRUE]
              /\ r.client_id \in DOMAIN Pre.accounts =>
                    accounts[r.client_id] = Pre.accounts[r.client_id]

\* C15 witness: a Dispute of one client on a record of a positive amount
\* retained for another client, whose account exists, has changed the
\* issuing client's account.
C15_Witness ==
    /\ LastCrossClient /\ Last.transaction_type = "Dispute"
    /\ unwrap(Pre.transactions[LastTx].amount) > 0
    /\ Pre.transactions[LastTx].client_id \in DOMAIN Pre.accounts
    /\ AccountAfter # AccountBefore

\* C16 (last write wins): after a Deposit or Withdrawal with tx id t the store
\* maps t to that very record (client, kind, amount) with disputed = FALSE,
\* whatever it held for t before; and a Resolve or Chargeback on t that is the
\* next record changes neither the ledger nor the store.
C16_LastWriteWins ==
    /\ [](Acted /\ Last.transaction_type \in {"Deposit", "Withdrawal"} =>
             /\ LastTx \in DOMAIN transactions
             /\ transactions[LastTx] = Last
             /\ ~transactions[LastTx].disputed)
    /\ [][(/\ Acted /\ Last.transaction_type \in {"Deposit", "Withdrawal"}
            /\ hist'[1].tx.transaction_type \in {"Resolve", "Chargeback"}
            /\ hist'[1].tx.tx_id = LastTx)
           => (accounts' = accounts /\ transactions' = transactions)]_vars

\* C16 witness: a Deposit or Withdrawal has replaced an entry of another
\* client that was flagged disputed, and the entry is now unflagged.
C16_Witness ==
    /\ Acted /\ Last.transaction_type \in {"Deposit", "Withdrawal"}
    /\ LastTxRetained /\ Pre.transactions[LastTx].disputed
    /\ Pre.transactions[LastTx].client_id # LastClient
    /\ transactions[LastTx] = Last

\* The record applied last is a Deposit or Withdrawal of a client of the
\* ledger that the handler dropped: the account was locked, or the withdrawal
\* exceeded the available funds.
LastDroppedByGuard ==
    /\ Acted /\ Last.transaction_type \in {"Deposit", "Withdrawal"}
    /\ Existed(LastClient)
    /\ \/ AccountBefore.locked
       \/ /\ Last.transaction_type = "Withdrawal"
          /\ unwrap(Last.amount) > AccountBefore.available

\* C17 (retention precedes the guards): a Deposit or Withdrawal of a client
\* already in the ledger is in the store afterwards, under its tx id; when the
\* account was locked or the withdrawal exceeded the available funds the
\* ledger is unchanged and the record is in the store all the same.
C17_RetentionPrecedesGuards ==
    /\ (Acted /\ Last.transaction_type \in {"Deposit", "Withdrawal"}
           /\ Existed(LastClient)) =>
          (LastTx \in DOMAIN transactions /\ transactions[LastTx] = Last)
    /\ LastDroppedByGuard =>
          /\ accounts = Pre.accounts
          /\ LastTx \in DOMAIN transactions /\ transactions[LastTx] = Last

\* C17 witness: a Withdrawal above the available funds of an unlocked account
\* left the ledger as it was and entered the store under a tx id the store
\* did not hold.
C17_Witness ==
    /\ LastDroppedByGuard /\ ~AccountBefore.locked
    /\ ~LastTxRetained
    /\ accounts = Pre.accounts
    /\ LastTx \in DOMAIN transactions /\ transactions[LastTx] = Last

\* The sum of held over the accounts of a ledger, and the sum of the amounts
\* of the records of a store that are flagged disputed.
RECURSIVE SumHeldOver(_, _)
SumHeldOver(accs, cs) ==
    IF cs = {} THEN 0
    ELSE LET c == CHOOSE x \in cs : TRUE
         IN  accs[c].held + SumHeldOver(accs, cs \ {c})

RECURSIVE SumAmountOver(_, _)
SumAmountOver(txs, ts) ==
    IF ts = {} THEN 0
    ELSE LET t == CHOOSE x \in ts : TRUE
         IN  unwrap(txs[t].amount) + SumAmountOver(txs, ts \ {t})

SumHeld == SumHeldOver(accounts, DOMAIN accounts)
SumDisputed ==
    SumAmountOver(transactions, {t \in DOMAIN transactions : transactions[t].disputed})

C20_Original ==
    (Acted /\ Last.transaction_type = "Dispute" /\ AccountsChanged)
        => fate[LastTx] = "applied"

\* C20 (only retained transactions can be disputed): a Dispute changes the
\* ledger only if a Deposit or Withdrawal with the tx id it references has
\* arrived before it, applied or dropped, and is in the store; the funds held
\* are the amount of that record.
C20_OnlyArrivedDisputed ==
    (Acted /\ Last.transaction_type = "Dispute" /\ AccountsChanged) =>
        /\ fate[LastTx] \in {"applied", "dropped"}
        /\ LastTxRetained
        /\ Pre.transactions[LastTx].transaction_type \in {"Deposit", "Withdrawal"}
        /\ AccountAfter.held =
              AccountBefore.held + unwrap(Pre.transactions[LastTx].amount)

\* C20 witness: a Dispute has put funds on hold for a record that was dropped
\* when it arrived.
C20_Witness ==
    /\ Acted /\ Last.transaction_type = "Dispute" /\ AccountsChanged
    /\ fate[LastTx] = "dropped"
    /\ AccountAfter.held > AccountBefore.held

=============================================================================
